---- MODULE Spec2Model ----
(***************************************************************************)
(* Model of utils/renderer_utils.py: the three renderer wrappers           *)
(* Mesh_Renderer, Point_Renderer and Texture_Renderer.                     *)
(*                                                                         *)
(* The program state is the renderer object under consideration (self,    *)
(* with exactly the attributes its constructor sets), the record of the   *)
(* last constructor or forward call (arguments, the object before the     *)
(* call, outputs or the exception raised) and three history variables.    *)
(*                                                                         *)
(* pytorch3d is external.  Its rasterizer is modelled on a one-dimensional *)
(* screen: a camera is a translation, a face covers the pixels whose      *)
(* centre lies inside the hull of its three projected vertices, a face is *)
(* back-facing when its winding is reversed, and the alpha channel of a   *)
(* shader is 0 exactly on the pixels no rasterized face covers.           *)
(***************************************************************************)
EXTENDS Integers, Sequences, FiniteSets, TLC

VARIABLES
    self,      \* the renderer object, or None before any was constructed
    call,      \* the last call: its arguments, the object before it, its result
    ctor,      \* history: the arguments of the constructor call that built self
    memo,      \* history: the first successful forward call on a Mesh_Renderer
    lastView   \* history: the last view tuple other than (8, 30, 30) given to
               \* the Point_Renderer, initially the constructor's (4, 30, 30)

vars == <<self, call, ctor, memo, lastView>>

(* ------------------------------ bounds -------------------------------- *)
\* world coordinate of the vertices handed to Mesh_Renderer.forward that do
\* not sit at 0
MaxMeshCoord == 1
\* largest world coordinate of a vertex handed to Texture_Renderer.forward
MaxTexCoord == 2
\* largest camera translation
MaxCamT == 1
\* largest number of extra points (ex_points) handed to Point_Renderer
MaxExtra == 1
\* largest rotation of the index permutation drawn by torch.randperm
MaxShift == 1
\* batch size of the point sets handed to Point_Renderer.forward
Batch == 2
\* square image resolution the renderers are constructed with
ImageSize == 2

(* --------------------------- Python values ---------------------------- *)
\* Python's None; every optional value is a record, so that it compares
None == [py |-> "None"]

Min(a, b) == IF a <= b THEN a ELSE b

Max(a, b) == IF a >= b THEN a ELSE b

\* the vertex indices of the modelled meshes
Verts == 0 .. 2

(* ----------------------------- mesh files ----------------------------- *)
\* the OBJ files Mesh_Renderer can be pointed at
ObjFiles == {"strip.obj"}

\* the FLAME directories Texture_Renderer can be pointed at
FlamePaths == {"flameA", "flameB"}

\* load_obj(...)[1].verts_idx: the triangle list of a mesh file
LoadObjVertsIdx(file) ==
    CASE file = "strip.obj" -> << <<0, 1, 1>>, <<2, 1, 0>> >>
      [] file = "flameA"    -> << <<0, 0, 1>>, <<1, 2, 2>>, <<2, 1, 0>> >>
      [] file = "flameB"    -> << <<0, 1, 2>>, <<0, 0, 1>> >>

\* load_obj(...)[1].textures_idx: here every face uses its own vertices' uvs
LoadObjTexturesIdx(file) == LoadObjVertsIdx(file)

\* load_obj(...)[2].verts_uvs: one texture coordinate per vertex
LoadObjVertsUvs(file) == [v \in Verts |-> v]

\* the raw face arrays (numpy, int64) a caller can hand to Mesh_Renderer
FaceArrays == { << <<0, 1, 2>>, <<0, 0, 2>> >> }

(* ------------------------- external rasterizer ------------------------ *)
\* RasterizationSettings(image_size, blur_radius=0.0, faces_per_pixel=1, ...)
RasterizationSettings(image_size, perspective_correct, cull_backfaces) ==
    [image_size |-> image_size, blur_radius |-> 0, faces_per_pixel |-> 1,
     perspective_correct |-> perspective_correct,
     cull_backfaces |-> cull_backfaces]

\* screen position of vertex v: world position translated by the camera
Project(verts, cameras, v) == verts[v] + cameras.T

FaceLo(verts, cameras, f) ==
    Min(Project(verts, cameras, f[1]),
        Min(Project(verts, cameras, f[2]), Project(verts, cameras, f[3])))

FaceHi(verts, cameras, f) ==
    Max(Project(verts, cameras, f[1]),
        Max(Project(verts, cameras, f[2]), Project(verts, cameras, f[3])))

\* reversed winding: the face looks away from the camera
BackFacing(verts, cameras, f) ==
    Project(verts, cameras, f[3]) < Project(verts, cameras, f[1])

\* face f is rasterized onto pixel p (centre p + 1/2)
Covers(verts, cameras, settings, f, p) ==
    /\ FaceLo(verts, cameras, f) <= p
    /\ p < FaceHi(verts, cameras, f)
    /\ ~(settings.cull_backfaces /\ BackFacing(verts, cameras, f))

Pixels(settings) == 0 .. (settings.image_size - 1)

\* MeshRasterizer(cameras, raster_settings)(mesh).pix_to_face with
\* faces_per_pixel = 1: the first face on each pixel, or -1
MeshRasterizer(verts, faces, cameras, settings) ==
    [p \in Pixels(settings) |->
        IF \E i \in 1 .. Len(faces) : Covers(verts, cameras, settings, faces[i], p)
        THEN CHOOSE i \in 1 .. Len(faces) :
                /\ Covers(verts, cameras, settings, faces[i], p)
                /\ \A j \in 1 .. (i - 1) :
                       ~Covers(verts, cameras, settings, faces[j], p)
        ELSE -1]

\* alpha of a blend at pixel p, in halves: 0 where no face was rasterized,
\* 1 (a value strictly between 0 and 1) on the border pixels of a face,
\* 2 (the value 1.0) deeper inside it
BlendAlpha(verts, faces, cameras, frags, p) ==
    IF frags[p] = -1 THEN 0
    ELSE Min(2, Min(p + 1 - FaceLo(verts, cameras, faces[frags[p]]),
                    FaceHi(verts, cameras, faces[frags[p]]) - p))

\* a camera object of the library; image_size is the screen size
Camera(T, focal_length, principal_point, image_size) ==
    [T |-> T, focal_length |-> focal_length,
     principal_point |-> principal_point, image_size |-> image_size]

\* the camera objects a caller can build and hand to forward
GivenCameras == {Camera(t, 1, 0, ImageSize) : t \in {0, MaxCamT}}

\* a tensor: its dtype and its value per pixel
Tensor(dtype, data) == [dtype |-> dtype, data |-> data]

(* ============================ Mesh_Renderer =========================== *)
\* torch.tensor(faces.astype(np.int32)): the vertex indices of a face array
\* lie in the int32 range, where the cast keeps every entry
FacesFromArray(array) ==
    [i \in 1 .. Len(array) |-> [k \in 1 .. 3 |-> array[i][k]]]

\* mutant: with neither argument given the constructor returns an object
\* that has no faces instead of raising
Mesh_Renderer_new_no_raise(image_size, obj_filename, faces) ==
    LET base == [cls |-> "Mesh_Renderer", device |-> "cpu",
                 image_size |-> image_size,
                 raster_settings |-> RasterizationSettings(image_size, FALSE, FALSE),
                 lights |-> "PointLights"]
    IN  [raised |-> "",
         obj |-> IF obj_filename # None
                 THEN base @@ [faces |-> LoadObjVertsIdx(obj_filename.path)]
                 ELSE IF faces # None
                 THEN base @@ [faces |-> FacesFromArray(faces.array)]
                 ELSE base]

\* Mesh_Renderer.__init__: the object built, or the exception raised
Mesh_Renderer_new(image_size, obj_filename, faces) ==
    LET base == [cls |-> "Mesh_Renderer", device |-> "cpu",
                 image_size |-> image_size]
        rest == [raster_settings |-> RasterizationSettings(image_size, FALSE, FALSE),
                 lights |-> "PointLights"]
    IN  IF obj_filename # None
        THEN [raised |-> "",
              obj |-> base @@ [faces |-> LoadObjVertsIdx(obj_filename.path)] @@ rest]
        ELSE IF faces # None
        THEN [raised |-> "",
              obj |-> base @@ [faces |-> FacesFromArray(faces.array)] @@ rest]
        ELSE [raised |-> "NotImplementedError", obj |-> None]

\* Mesh_Renderer._build_cameras
Mesh_Renderer_build_cameras(obj, transform_matrix, focal_length, principal_point) ==
    Camera(transform_matrix.T, focal_length.v, principal_point.v, obj.image_size)

\* mutant: forward reuses the camera object handed to the previous call
Mesh_Renderer_cameras_cached(obj, cameras, transform_matrix, focal_length, principal_point) ==
    IF call.op = "Mesh_Renderer.forward" /\ call.raised = ""
       /\ call.args.cameras # None
    THEN call.args.cameras
    ELSE IF cameras = None
    THEN Mesh_Renderer_build_cameras(obj, transform_matrix, focal_length,
                                     principal_point)
    ELSE cameras

\* lines 52-53: the camera forward renders with
Mesh_Renderer_cameras(obj, cameras, transform_matrix, focal_length, principal_point) ==
    IF cameras = None
    THEN Mesh_Renderer_build_cameras(obj, transform_matrix, focal_length,
                                     principal_point)
    ELSE cameras

\* line 56: every vertex white
Mesh_Renderer_verts_rgb(vertices) == [v \in DOMAIN vertices |-> 1]

\* SoftPhongShader on the rasterized fragments: channel value per pixel, in
\* units of 1/255; the background is white, a back-facing face is lit by
\* the ambient term only
PhongShade(verts, faces, verts_rgb, cameras, frags, p) ==
    IF frags[p] = -1 THEN 255
    ELSE IF BackFacing(verts, cameras, faces[frags[p]])
         THEN (255 * verts_rgb[faces[frags[p]][1]]) \div 2
         ELSE 255 * verts_rgb[faces[frags[p]][1]]

\* lines 54-70 of Mesh_Renderer.forward, given the camera
Mesh_Renderer_render(obj, vertices, cameras) ==
    LET faces == obj.faces
        verts_rgb == Mesh_Renderer_verts_rgb(vertices)
        frags == MeshRasterizer(vertices, faces, cameras, obj.raster_settings)
        images == [p \in Pixels(obj.raster_settings) |->
                      PhongShade(vertices, faces, verts_rgb, cameras, frags, p)]
        alpha_images == [p \in Pixels(obj.raster_settings) |->
                            BlendAlpha(vertices, faces, cameras, frags, p)]
    IN  <<Tensor("float32", images), Tensor("float32", alpha_images)>>

\* Mesh_Renderer.forward: outputs, or the exception raised
Mesh_Renderer_forward_result(obj, vertices, cameras, transform_matrix, focal_length, principal_point) ==
    IF cameras = None /\ transform_matrix = None
    THEN [raised |-> "AttributeError", out |-> None]
    ELSE [raised |-> "",
          out |-> Mesh_Renderer_render(obj, vertices,
                     Mesh_Renderer_cameras(obj, cameras, transform_matrix,
                                           focal_length, principal_point))]

\* the camera arguments of a Mesh_Renderer.forward call
MeshCameraArgs ==
    {[cameras |-> None, transform_matrix |-> None, focal_length |-> None,
      principal_point |-> None],
     [cameras |-> Camera(0, 1, 0, ImageSize), transform_matrix |-> None,
      focal_length |-> None, principal_point |-> None],
     [cameras |-> None, transform_matrix |-> [T |-> MaxCamT],
      focal_length |-> [v |-> 1], principal_point |-> [v |-> 0]],
     [cameras |-> Camera(0, 1, 0, ImageSize),
      transform_matrix |-> [T |-> MaxCamT],
      focal_length |-> [v |-> 1], principal_point |-> [v |-> 0]]}

Mesh_Renderer_init ==
    \E obj_filename \in {None} \cup {[path |-> f] : f \in ObjFiles},
       faces \in {None} \cup {[array |-> a] : a \in FaceArrays} :
        LET r == Mesh_Renderer_new(ImageSize, obj_filename, faces)
        IN  /\ self' = IF r.raised = "" THEN r.obj ELSE self
            /\ call' = [op |-> "Mesh_Renderer.__init__",
                        args |-> [obj_filename |-> obj_filename, faces |-> faces],
                        pre |-> self, raised |-> r.raised, out |-> None]
            /\ ctor' = IF r.raised = ""
                       THEN [obj_filename |-> obj_filename, faces |-> faces]
                       ELSE ctor
            /\ memo' = IF r.raised = "" THEN None ELSE memo
            /\ lastView' = IF r.raised = "" THEN None ELSE lastView

Mesh_Renderer_forward ==
    /\ self # None
    /\ self.cls = "Mesh_Renderer"
    /\ \E vertices \in [Verts -> {0, MaxMeshCoord}], cam \in MeshCameraArgs :
        \E r \in {Mesh_Renderer_forward_result(self, vertices, cam.cameras,
                     cam.transform_matrix, cam.focal_length, cam.principal_point)} :
            /\ call' = [op |-> "Mesh_Renderer.forward",
                        args |-> [vertices |-> vertices] @@ cam,
                        pre |-> self, raised |-> r.raised, out |-> r.out]
            /\ memo' = IF r.raised # "" THEN memo
                       ELSE IF memo = None
                       THEN [args |-> [vertices |-> vertices] @@ cam,
                             out |-> r.out, between |-> FALSE]
                       ELSE IF memo.args # [vertices |-> vertices] @@ cam
                       THEN [memo EXCEPT !.between = TRUE]
                       ELSE memo
            /\ UNCHANGED <<self, ctor, lastView>>

(* =========================== Point_Renderer =========================== *)
\* line 90: the slice [:10000] keeps at most this many points
SubsampleCap == 10000

\* look_at_view_transform(dist, elev, azim): the rotation is fixed by the two
\* angles, the translation by the distance
LookAtViewTransform(D, E, A) == [R |-> <<E, A>>, T |-> D]

\* FoVPerspectiveCameras(device, R, T, znear=0.01, zfar=1.0)
FoVPerspectiveCameras(RT) ==
    [R |-> RT.R, T |-> RT.T, znear |-> "0.01", zfar |-> "1.0"]

\* Point_Renderer.__init__
Point_Renderer_new(image_size) ==
    LET cameras == FoVPerspectiveCameras(LookAtViewTransform(4, 30, 30))
        raster_settings == [image_size |-> image_size, radius |-> "0.005",
                            points_per_pixel |-> 10]
    IN  [cls |-> "Point_Renderer", device |-> "cpu", cameras |-> cameras,
         renderer |-> [rasterizer |-> [cameras |-> cameras,
                                       raster_settings |-> raster_settings],
                       compositor |-> "AlphaCompositor"]]

\* mutant: the test compares with the constructor's view (4, 30, 30)
Point_Renderer_rebuilds_ctor_view(D, E, A) == D # 4 \/ E # 30 \/ A # 30

\* mutant: the test joins the three comparisons with `and`
Point_Renderer_rebuilds_and(D, E, A) == D # 8 /\ E # 30 /\ A # 30

\* line 86: the view tuple makes forward build a new camera
Point_Renderer_rebuilds(D, E, A) == D # 8 \/ E # 30 \/ A # 30

\* lines 86-88: self.cameras after the test
Point_Renderer_cameras(obj, D, E, A) ==
    IF Point_Renderer_rebuilds(D, E, A)
    THEN FoVPerspectiveCameras(LookAtViewTransform(D, E, A))
    ELSE obj.cameras

\* mutant: forward also puts the new camera into the stored rasterizer
Point_Renderer_after_rasterizer(obj, cameras) ==
    [obj EXCEPT !.cameras = cameras, !.renderer.rasterizer.cameras = cameras]

\* line 88: the object once forward has assigned self.cameras
Point_Renderer_after(obj, cameras) == [obj EXCEPT !.cameras = cameras]

\* torch.randperm(n) as the generator state `seed` draws it: a rotation of
\* 0 .. n-1, possibly reversed (for n = 3 these are all permutations)
RandPerm(n, seed) ==
    [i \in 1 .. n |->
        IF seed.rev THEN (n - 1) - ((i - 1 + seed.shift) % n)
                    ELSE (i - 1 + seed.shift) % n]

\* line 90: torch.randperm(verts.shape[1])[:10000], the indices kept
SubsampleIdx(n, seed) == SubSeq(RandPerm(n, seed), 1, Min(SubsampleCap, n))

\* mutant: the slice [:10000] is left out
SubsampleCount_uncapped(n) == n

\* line 90: verts.shape[1] after the subsampling
SubsampleCount(n) == Min(SubsampleCap, n)

\* line 90: the index tensor is applied along dim 1, to every batch element
BatchIdx(b, n, seed) == SubsampleIdx(n, seed)

\* line 92: verts.shape[1] after ex_points is appended
WithExtraCount(count, ex_points) ==
    IF ex_points # None THEN count + ex_points.n ELSE count

\* line 94: coords_size, a tenth of the points the cloud has by then
CoordsSize(count) == count \div 10

\* lines 93-100: verts.shape[1] after the three axes are appended
WithCoordsCount(count, coords) ==
    IF coords THEN count + CoordsSize(count) * 3 ELSE count

\* lines 89-100: verts.shape[1] of the cloud handed to the renderer
CloudCount(n, coords, ex_points) ==
    WithCoordsCount(WithExtraCount(SubsampleCount(n), ex_points), coords)

\* the generator states torch.randperm and torch.rand_like can draw from
Seeds == [shift : 0 .. MaxShift, rev : BOOLEAN]

\* the sizes (points per batch element) of the point sets handed to forward
PointCounts == {1, 3, 9, 10, 25, SubsampleCap, SubsampleCap + 7}

\* Python keyword arguments: the value given, or the default when left out
Kw(given, default) == IF given = None THEN default ELSE given.v

Point_Renderer_init ==
    /\ self' = Point_Renderer_new(ImageSize)
    /\ call' = [op |-> "Point_Renderer.__init__", args |-> None, pre |-> self,
                raised |-> "", out |-> None]
    /\ ctor' = [image_size |-> ImageSize]
    /\ memo' = None
    /\ lastView' = [dea |-> <<4, 30, 30>>]

\* one Point_Renderer.forward call, its arguments drawn from the given sets
PointForward(counts, seeds, views, extras) ==
    /\ self # None
    /\ self.cls = "Point_Renderer"
    /\ \E n \in counts, seed \in seeds, coords \in BOOLEAN, kw \in views,
          ex_points \in extras :
        LET D == Kw(kw.D, 3)
            E == Kw(kw.E, 15)
            A == Kw(kw.A, 30)
            cameras == Point_Renderer_cameras(self, D, E, A)
            npoints == CloudCount(n, coords, ex_points)
            images == [renderer |-> self.renderer, cameras |-> cameras,
                       npoints |-> npoints, rgb |-> seed, scale |-> 255]
        IN  /\ self' = Point_Renderer_after(self, cameras)
            /\ call' = [op |-> "Point_Renderer.forward",
                        args |-> [n |-> n, batch |-> Batch, D |-> kw.D,
                                  E |-> kw.E, A |-> kw.A, coords |-> coords,
                                  ex_points |-> ex_points],
                        view |-> <<D, E, A>>, seed |-> seed,
                        pre |-> self, raised |-> "",
                        out |-> Tensor("float32", images)]
            /\ lastView' = IF <<D, E, A>> # <<8, 30, 30>>
                           THEN [dea |-> <<D, E, A>>] ELSE lastView
            /\ UNCHANGED <<ctor, memo>>

\* the view arguments of a forward call: each of D, E, A given or left out
AllViews ==
    [D : {None, [v |-> 4], [v |-> 8]}, E : {None, [v |-> 30]},
     A : {None, [v |-> 60]}]

\* forward over every view, on small point sets
Point_Renderer_forward ==
    PointForward({3, 25}, {[shift |-> 0, rev |-> FALSE]}, AllViews, {None})

\* forward over every point-set size, generator state and extra point set,
\* from the default view and the view (8, 30, 30)
Point_Renderer_forward_cloud ==
    PointForward(PointCounts, Seeds,
                 {[D |-> None, E |-> None, A |-> None],
                  [D |-> [v |-> 8], E |-> [v |-> 30], A |-> None]},
                 {None} \cup {[n |-> k] : k \in 1 .. MaxExtra})

(* ========================== Texture_Renderer ========================== *)
\* mutant: the distinct vertices of face f found in the mask are counted
CountValid_distinct(f, k, flame_mask) ==
    Cardinality({f[j] : j \in k .. Len(f)} \cap flame_mask)

\* lines 127-130: the vertices of face f, from position k on, found in the mask
RECURSIVE CountValid(_, _, _)
CountValid(f, k, flame_mask) ==
    IF k > Len(f) THEN 0
    ELSE (IF f[k] \in flame_mask THEN 1 ELSE 0) + CountValid(f, k + 1, flame_mask)

\* line 131: the mask entry of a face with `valid` vertices in the mask
FaceIsValid(valid) == valid = 3

\* lines 125-132: reduced_faces, one entry per face, in face order
ReducedFaces(faces, flame_mask) ==
    [i \in 1 .. Len(faces) |-> FaceIsValid(CountValid(faces[i], 1, flame_mask))]

\* Texture_Renderer.__init__; the attribute flame_mask exists only when a
\* mask was given
Texture_Renderer_new(image_size, flame_path, flame_mask) ==
    LET base == [cls |-> "Texture_Renderer", device |-> "cpu",
                 uvverts |-> LoadObjVertsUvs(flame_path),
                 uvfaces |-> LoadObjTexturesIdx(flame_path),
                 faces |-> LoadObjVertsIdx(flame_path),
                 lights |-> "AmbientLights",
                 raster_settings |-> RasterizationSettings(image_size, TRUE, TRUE)]
    IN  IF flame_mask # None
        THEN base @@ [flame_mask |->
                         ReducedFaces(LoadObjVertsIdx(flame_path), flame_mask.set)]
        ELSE base

\* mutant: the silhouette pass is taken only when the mask selects a face
HasFlameMask_any(obj) ==
    "flame_mask" \in DOMAIN obj
        /\ \E i \in DOMAIN obj.flame_mask : obj.flame_mask[i]

\* hasattr(self, 'flame_mask')
HasFlameMask(obj) == "flame_mask" \in DOMAIN obj

RECURSIVE SelectFrom(_, _, _)
\* boolean-mask indexing: the entries of seq from position i on whose mask
\* entry is true, in order
SelectFrom(seq, mask, i) ==
    IF i > Len(seq) THEN <<>>
    ELSE (IF mask[i] THEN <<seq[i]>> ELSE <<>>) \o SelectFrom(seq, mask, i + 1)

\* line 157: faces[:, self.flame_mask]
MaskedFaces(obj) == SelectFrom(obj.faces, obj.flame_mask, 1)

\* mutant: the silhouette renderer rasterizes with default settings, which
\* do not cull back faces
SilhouetteRasterSettings_default(obj) ==
    RasterizationSettings(obj.raster_settings.image_size, FALSE, FALSE)

\* the rasterizer settings of the silhouette renderer (line 160)
SilhouetteRasterSettings(obj) == obj.raster_settings

\* mutant: the alpha channel is returned as it is
GreaterThanZero_raw(alpha) == alpha

\* lines 151 and 164: alpha > 0.0, a comparison that yields a bool tensor
GreaterThanZero(alpha) ==
    Tensor("bool", [p \in DOMAIN alpha.data |-> alpha.data[p] > 0])

\* lines 145-151: the Phong pass: the texture sampled on every covered pixel
\* (ambient light, white background) and the mask of the full mesh
Texture_Renderer_phong(obj, vertices_world, texture_images, cameras) ==
    LET frags == MeshRasterizer(vertices_world, obj.faces, cameras,
                                obj.raster_settings)
        images == [p \in Pixels(obj.raster_settings) |->
                      IF frags[p] = -1 THEN 1
                      ELSE texture_images[obj.uvverts[obj.uvfaces[frags[p]][1]]]]
        alpha == [p \in Pixels(obj.raster_settings) |->
                     BlendAlpha(vertices_world, obj.faces, cameras, frags, p)]
    IN  <<Tensor("float32", images), GreaterThanZero(Tensor("float32", alpha))>>

\* lines 153-166: the silhouette pass over the masked faces, or None
Texture_Renderer_silhouette(obj, vertices_world, cameras) ==
    IF HasFlameMask(obj)
    THEN LET faces == MaskedFaces(obj)
             settings == SilhouetteRasterSettings(obj)
             frags == MeshRasterizer(vertices_world, faces, cameras, settings)
             alpha == [p \in Pixels(settings) |->
                          BlendAlpha(vertices_world, faces, cameras, frags, p)]
         IN  GreaterThanZero(Tensor("float32", alpha))
    ELSE None

\* Texture_Renderer.forward: images, masks_all, masks_face
Texture_Renderer_forward_result(obj, vertices_world, texture_images, cameras) ==
    Texture_Renderer_phong(obj, vertices_world, texture_images, cameras)
    \o <<Texture_Renderer_silhouette(obj, vertices_world, cameras)>>

\* the texture images handed to forward: a colour (0 or 1) per uv coordinate
TextureImages == {[u \in Verts |-> u % 2]}

Texture_Renderer_init ==
    \E flame_path \in FlamePaths,
       flame_mask \in {None} \cup {[set |-> m] : m \in SUBSET Verts} :
        /\ self' = Texture_Renderer_new(ImageSize, flame_path, flame_mask)
        /\ call' = [op |-> "Texture_Renderer.__init__",
                    args |-> [flame_path |-> flame_path,
                              flame_mask |-> flame_mask],
                    pre |-> self, raised |-> "", out |-> None]
        /\ ctor' = [flame_path |-> flame_path, flame_mask |-> flame_mask]
        /\ memo' = None
        /\ lastView' = None

Texture_Renderer_forward ==
    /\ self # None
    /\ self.cls = "Texture_Renderer"
    /\ \E vertices_world \in [Verts -> 0 .. MaxTexCoord],
          texture_images \in TextureImages, cameras \in GivenCameras :
        /\ call' = [op |-> "Texture_Renderer.forward",
                    args |-> [vertices_world |-> vertices_world,
                              texture_images |-> texture_images,
                              cameras |-> cameras],
                    pre |-> self, raised |-> "",
                    out |-> Texture_Renderer_forward_result(
                                self, vertices_world, texture_images, cameras)]
        /\ UNCHANGED <<self, ctor, memo, lastView>>

Init ==
    /\ self = None
    /\ call = [op |-> "start"]
    /\ ctor = None
    /\ memo = None
    /\ lastView = None

Next ==
    \/ Mesh_Renderer_init
    \/ Mesh_Renderer_forward
    \/ Point_Renderer_init
    \/ Point_Renderer_forward
    \/ Texture_Renderer_init
    \/ Texture_Renderer_forward

Spec == Init /\ [][Next]_vars

NextCloud ==
    \/ Point_Renderer_init
    \/ Point_Renderer_forward_cloud

SpecCloud == Init /\ [][NextCloud]_vars

(* ============================== claims ================================ *)
\* the camera a view tuple builds
ViewCamera(dea) == FoVPerspectiveCameras(LookAtViewTransform(dea[1], dea[2], dea[3]))

Sentinel == <<8, 30, 30>>

ForwardOps ==
    {"Mesh_Renderer.forward", "Point_Renderer.forward", "Texture_Renderer.forward"}

\* C1: after every Point_Renderer.forward call, whatever calls came before:
\* with (D, E, A) = (8, 30, 30) the stored camera is the one stored before
\* the call; with any other tuple it is the camera built from that call's
\* tuple; and the call rendered with the stored camera as it is after the test.
C1_RebuildPolicy ==
    call.op = "Point_Renderer.forward" =>
        /\ call.view = Sentinel => self.cameras = call.pre.cameras
        /\ call.view # Sentinel => self.cameras = ViewCamera(call.view)
        /\ call.out.data.cameras = self.cameras

\* C1 witness: a sentinel call made after a call with another view left the
\* camera of that other view in place
C1_Witness ==
    /\ call.op = "Point_Renderer.forward"
    /\ call.view = Sentinel
    /\ call.pre.cameras = ViewCamera(<<3, 15, 60>>)
    /\ self.cameras = ViewCamera(<<3, 15, 60>>)

\* C10: the stored camera of a Point_Renderer is always the one built from
\* the last view tuple other than (8, 30, 30), or from the constructor's
\* (4, 30, 30) when there was none; so a sentinel call renders with that
\* camera, the stored camera is never one built from (8, 30, 30), and a call
\* that leaves D, E and A out (3, 15, 30) stores the camera of (3, 15, 30).
C10_SentinelViewHistory ==
    (self # None /\ self.cls = "Point_Renderer") =>
        /\ self.cameras = ViewCamera(lastView.dea)
        /\ self.cameras # ViewCamera(Sentinel)
        /\ call.op = "Point_Renderer.forward" =>
            /\ call.out.data.cameras = ViewCamera(lastView.dea)
            /\ (call.args.D = None /\ call.args.E = None /\ call.args.A = None)
                   => self.cameras = ViewCamera(<<3, 15, 30>>)

\* C10 witness: a sentinel call rendered with the camera of an earlier call
C10_Witness ==
    /\ call.op = "Point_Renderer.forward"
    /\ call.view = Sentinel
    /\ lastView.dea = <<4, 15, 60>>
    /\ call.out.data.cameras = ViewCamera(<<4, 15, 60>>)

\* the object a constructor call with the recorded arguments builds
Constructed ==
    CASE self.cls = "Mesh_Renderer" ->
            Mesh_Renderer_new(ImageSize, ctor.obj_filename, ctor.faces).obj
      [] self.cls = "Point_Renderer" -> Point_Renderer_new(ctor.image_size)
      [] self.cls = "Texture_Renderer" ->
            Texture_Renderer_new(ImageSize, ctor.flame_path, ctor.flame_mask)

\* C2 as stated: after every forward call of any of the three renderers the
\* object is as it was before the call and as its constructor built it.
C2_NoForwardChangesState ==
    call.op \in ForwardOps => (self = call.pre /\ self = Constructed)

\* C2 amended: Mesh_Renderer.forward and Texture_Renderer.forward leave the
\* object as its constructor built it; Point_Renderer.forward leaves every
\* field but cameras as constructed, and leaves cameras alone only for the
\* view (8, 30, 30).
C2_OnlyPointCameraChanges ==
    call.op \in ForwardOps =>
        /\ DOMAIN self = DOMAIN Constructed
        /\ \A fld \in DOMAIN self \ {"cameras"} :
               self[fld] = Constructed[fld] /\ self[fld] = call.pre[fld]
        /\ self.cls # "Point_Renderer" => self = call.pre
        /\ (self.cls = "Point_Renderer" /\ call.view = Sentinel)
               => self.cameras = call.pre.cameras

\* C2 witness: a Point_Renderer.forward call that replaced the stored camera
C2_Witness ==
    /\ call.op = "Point_Renderer.forward"
    /\ self.cameras # call.pre.cameras
    /\ self.cameras # Constructed.cameras

\* a tensor that holds only true/false values
IsBoolTensor(t) ==
    /\ t.dtype = "bool"
    /\ \A p \in DOMAIN t.data : t.data[p] \in BOOLEAN

C5_MaskedSilhouettePresence ==
    call.op = "Texture_Renderer.forward" =>
        (call.out[3] = None <=> ctor.flame_mask = None)

\* C5 witness: a renderer built with the empty mask returned a mask
C5_Witness ==
    /\ call.op = "Texture_Renderer.forward"
    /\ ctor.flame_mask = [set |-> {}]
    /\ call.out[3] # None

\* C6: a Texture_Renderer built with a vertex-index set stores one mask entry
\* per face, in face order, and entry i is true exactly when all three vertex
\* indices of face i are in the set.
C6_FaceMask ==
    (self # None /\ self.cls = "Texture_Renderer" /\ ctor.flame_mask # None) =>
        /\ "flame_mask" \in DOMAIN self
        /\ DOMAIN self.flame_mask = DOMAIN self.faces
        /\ \A i \in DOMAIN self.faces :
               self.flame_mask[i]
                   <=> \A k \in 1 .. 3 : self.faces[i][k] \in ctor.flame_mask.set

\* C6 witness: a face that repeats a vertex is selected, a face with a
\* vertex outside the set is not
C6_Witness ==
    /\ self # None
    /\ self.cls = "Texture_Renderer"
    /\ ctor.flame_mask = [set |-> {0, 1}]
    /\ self.faces[1] = <<0, 0, 1>>
    /\ self.flame_mask[1]
    /\ ~self.flame_mask[2]

\* C7 as stated: a Mesh_Renderer constructor call succeeds exactly when
\* exactly one of the mesh-file path and the face array is given.
C7_ExactlyOne ==
    call.op = "Mesh_Renderer.__init__" =>
        (call.raised = ""
            <=> (call.args.obj_filename = None) # (call.args.faces = None))

\* C7 amended: a Mesh_Renderer constructor call raises NotImplementedError
\* exactly when neither argument is given and then yields no object; given
\* both it succeeds and takes the faces of the mesh file; every Mesh_Renderer
\* has its faces set.
C7_AtLeastOne ==
    /\ call.op = "Mesh_Renderer.__init__" =>
        /\ call.raised = "NotImplementedError"
               <=> (call.args.obj_filename = None /\ call.args.faces = None)
        /\ call.raised # "" => self = call.pre
        /\ call.raised = "" =>
            /\ self.cls = "Mesh_Renderer"
            /\ "faces" \in DOMAIN self
            /\ self.faces =
                   IF call.args.obj_filename # None
                   THEN LoadObjVertsIdx(call.args.obj_filename.path)
                   ELSE FacesFromArray(call.args.faces.array)
    /\ (self # None /\ self.cls = "Mesh_Renderer") =>
           ("faces" \in DOMAIN self /\ Len(self.faces) > 0)

\* C7 witness: a constructor call given both arguments built an object with
\* the faces of the file
C7_Witness ==
    /\ call.op = "Mesh_Renderer.__init__"
    /\ call.raised = ""
    /\ call.args.obj_filename # None
    /\ call.args.faces # None
    /\ self.faces = LoadObjVertsIdx(call.args.obj_filename.path)

\* C8: in every Texture_Renderer.forward call that returns a masked
\* silhouette, every pixel true in it is true in the full-mesh mask.
C8_MaskContainment ==
    (call.op = "Texture_Renderer.forward" /\ call.out[3] # None) =>
        \A p \in DOMAIN call.out[3].data :
            call.out[3].data[p] => call.out[2].data[p]

\* C8 witness: the masked silhouette is not empty and the full-mesh mask
\* holds a pixel outside it
C8_Witness ==
    /\ call.op = "Texture_Renderer.forward"
    /\ call.out[3] # None
    /\ \E p \in DOMAIN call.out[3].data : call.out[3].data[p]
    /\ \E p \in DOMAIN call.out[3].data :
           call.out[2].data[p] /\ ~call.out[3].data[p]

\* C9: a successful Mesh_Renderer.forward call with the arguments of the
\* first successful call on the same object returns the outputs of that
\* call, whatever calls were made in between.
C9_MeshDeterminism ==
    (call.op = "Mesh_Renderer.forward" /\ call.raised = "" /\ memo # None
         /\ [vertices |-> call.args.vertices, cameras |-> call.args.cameras,
             transform_matrix |-> call.args.transform_matrix,
             focal_length |-> call.args.focal_length,
             principal_point |-> call.args.principal_point] = memo.args)
        => call.out = memo.out

\* C9 witness: the first call was repeated after a call with other arguments
C9_Witness ==
    /\ call.op = "Mesh_Renderer.forward"
    /\ call.raised = ""
    /\ memo # None
    /\ memo.between
    /\ call.args = memo.args
    /\ \E p \in DOMAIN call.out[2].data : call.out[2].data[p] > 0

\* C4: the cloud Point_Renderer.forward hands to the renderer has
\* min(10000, n) + e + A points, A being 0 without coords and otherwise
\* three times the tenth (rounded down) of the min(10000, n) + e points the
\* cloud has by then; the min(10000, n) kept points are distinct input
\* indices, drawn once and used for every batch element.
C4_PointCount ==
    call.op = "Point_Renderer.forward" =>
        LET n == call.args.n
            e == IF call.args.ex_points = None THEN 0 ELSE call.args.ex_points.n
            kept == IF n < 10000 THEN n ELSE 10000
            axes == IF call.args.coords THEN 3 * ((kept + e) \div 10) ELSE 0
            idx == BatchIdx(1, n, call.seed)
        IN  /\ call.out.data.npoints = kept + e + axes
            /\ Len(idx) = kept
            /\ \A i \in 1 .. Len(idx) : idx[i] \in 0 .. (n - 1)
            /\ Cardinality({idx[i] : i \in 1 .. Len(idx)}) = kept
            /\ \A b \in 1 .. call.args.batch : BatchIdx(b, n, call.seed) = idx

\* C4 witness: more than 10000 input points, an extra point and the axes
C4_Witness ==
    /\ call.op = "Point_Renderer.forward"
    /\ call.args.n = 10007
    /\ call.args.ex_points = [n |-> 1]
    /\ call.args.coords
    /\ call.seed.rev
    /\ call.out.data.npoints = 13001
====
